---- MODULE Spec2Model ----
(***************************************************************************)
(* Model of Intents.modify_training_phrase_df                              *)
(* (src/src/dfcx_scrapi/core/intents.py, lines 171-347): the bulk          *)
(* add/delete reconciliation of a training-phrase table against a table    *)
(* of actions.                                                             *)
(*                                                                         *)
(* A DataFrame is a sequence of records (one record per row, one field per *)
(* column).  A text is a sequence of one-character strings, so that the    *)
(* concatenation of the parts of a phrase and the formatting of the        *)
(* outcome messages are real concatenations.  A missing value (pandas NaN) *)
(* is one of the three typed NaN values below.                             *)
(***************************************************************************)
EXTENDS Integers, Sequences, FiniteSets, TLC

\* ------------------------------------------------------------------ bounds
\* Largest number of training phrases of one intent in the current table.
MaxPhrases == 2
\* Largest number of rows of the actions table.
MaxActions == 2

\* ------------------------------------------------------------- NaN values
NaNStr == "NaN"
NaNInt == -1
NaNText == <<"NaN">>

\* ------------------------------------------------------------ input space
\* Display names of the intents of the generated inputs.
IntentNames == {"I", "J"}

\* The resource name of an intent, e.g. projects/../intents/<uuid>.
NameOf(dn) == "intents/" \o dn

TxtA == <<"a">>
TxtB == <<"b">>
TxtAB == <<"a", "b">>
TxtHi == <<"h", "i">>
TxtYo == <<"y", "o">>
TxtBye == <<"b", "y", "e">>

\* A training phrase is the sequence of the texts of its parts.
PhraseShapes == { <<TxtA>>, <<TxtB>>, <<TxtA, TxtB>> }

\* The phrase texts an action may name.
ActionPhrases == { TxtA, TxtB, TxtAB }

ActionKinds == { "add", "delete" }

RECURSIVE Concat(_)
\* "".join(parts): the concatenated text of a phrase.
Concat(parts) ==
    IF parts = <<>> THEN <<>> ELSE Head(parts) \o Concat(Tail(parts))

RECURSIVE Flatten(_)
\* pd.concat of a sequence of tables.
Flatten(tables) ==
    IF tables = <<>> THEN <<>> ELSE Head(tables) \o Flatten(Tail(tables))

\* The rows of one training phrase in the advanced-mode table: one row per
\* part; a part after the first is bound to a parameter.
PhraseRows(dn, idx, parts) ==
    [ j \in 1..Len(parts) |->
        [ name            |-> NameOf(dn),
          display_name    |-> dn,
          training_phrase |-> idx,
          part            |-> j - 1,
          text            |-> parts[j],
          parameter_id    |-> IF j = 1 THEN "" ELSE "param",
          repeat_count    |-> 1,
          id              |-> "tp-id",
          phrase          |-> Concat(parts) ] ]

\* The rows of one intent: its phrases are numbered from 0 in order.
IntentRows(dn, phrases) ==
    Flatten([ i \in 1..Len(phrases) |-> PhraseRows(dn, i - 1, phrases[i]) ])

SeqsUpTo(S, n) == UNION { [1..k -> S] : k \in 0..n }

\* The current tables of the generated inputs.
CurrentTables ==
    { IntentRows("I", pi) \o IntentRows("J", pj) :
        pi \in SeqsUpTo(PhraseShapes, MaxPhrases),
        pj \in SeqsUpTo(PhraseShapes, MaxPhrases) }

ActionRows ==
    [ display_name : IntentNames, phrase : ActionPhrases, action : ActionKinds ]

ActionTables == SeqsUpTo(ActionRows, MaxActions)

\* The two scenarios of the specification's section 8 on literal data.
GreetingCurrent == IntentRows("Greeting", << <<TxtHi>> >>)
GreetingActions ==
    << [ display_name |-> "Greeting", phrase |-> TxtHi, action |-> "delete" ],
       [ display_name |-> "Greeting", phrase |-> TxtYo, action |-> "add" ] >>
ByeActions ==
    << [ display_name |-> "X", phrase |-> TxtBye, action |-> "delete" ] >>

\* The columns of a well-formed table of training phrases and of actions.
CurrentColumns ==
    { "name", "display_name", "training_phrase", "part", "text",
      "parameter_id", "repeat_count", "id", "phrase" }
ActionColumns == { "display_name", "phrase", "action" }

\* A table restricted to the columns cols.
Project(tbl, cols) ==
    [ k \in 1..Len(tbl) |-> [ f \in cols \cap DOMAIN tbl[k] |-> tbl[k][f] ] ]

\* The tables of the inputs that lack one column.
BaseCurrent ==
    IntentRows("I", << <<TxtA>>, <<TxtA, TxtB>> >>) \o IntentRows("J", << <<TxtB>> >>)
ShortActionTables == SeqsUpTo(ActionRows, 1)

\* ------------------------------------------------------------ the function
\* on=["display_name", "phrase"]
MergeKeys == { "display_name", "phrase" }

\* The columns line 217 drops from the true additions.
DroppedColumns ==
    { "name", "training_phrase", "part", "text", "parameter_id",
      "repeat_count", "id" }

\* KeyErrorLine with "id" left out of the list of line 217.
KeyErrorLineIdNotDropped(dfcols, actcols) ==
    IF ~(MergeKeys \subseteq dfcols /\ MergeKeys \subseteq actcols) THEN 199
    ELSE IF "action" \notin dfcols \cup actcols THEN 207
    ELSE IF "text" \notin dfcols \cup actcols THEN 211
    ELSE IF ~((DroppedColumns \ {"id"}) \subseteq dfcols \cup actcols) THEN 217
    ELSE 0

\* The line at which a column that is not there raises KeyError, or 0: the
\* merge needs its keys in both tables (199), the masks read the columns
\* action (207) and text (211), and drop raises for a label that is not a
\* column (217).
KeyErrorLine(dfcols, actcols) ==
    IF ~(MergeKeys \subseteq dfcols /\ MergeKeys \subseteq actcols) THEN 199
    ELSE IF "action" \notin dfcols \cup actcols THEN 207
    ELSE IF "text" \notin dfcols \cup actcols THEN 211
    ELSE IF ~(DroppedColumns \subseteq dfcols \cup actcols) THEN 217
    ELSE 0

SameKey(l, r) == l.display_name = r.display_name /\ l.phrase = r.phrase

\* A left row joined with the action of a right row.
JoinRow(l, act) == l @@ [ action |-> act ]

\* A right row without a left match: the left-only columns are NaN.
RightOnlyRow(r) ==
    [ name            |-> NaNStr,
      display_name    |-> r.display_name,
      training_phrase |-> NaNInt,
      part            |-> NaNInt,
      text            |-> NaNText,
      parameter_id    |-> NaNStr,
      repeat_count    |-> NaNInt,
      id              |-> NaNStr,
      phrase          |-> r.phrase,
      action          |-> r.action ]

\* The rows a left row yields: one per matching right row, or one with a
\* NaN action when no right row matches.
LeftJoined(l, right) ==
    LET matches == SelectSeq(right, LAMBDA r : SameKey(l, r))
    IN  IF matches = <<>>
        THEN << JoinRow(l, NaNStr) >>
        ELSE [ k \in 1..Len(matches) |-> JoinRow(l, matches[k].action) ]

\* pd.merge(left, right, on=["display_name", "phrase"], how="outer").
Merge(left, right) ==
    LET matched == Flatten([ i \in 1..Len(left) |-> LeftJoined(left[i], right) ])
        alone   == SelectSeq(right,
                     LAMBDA r : \A i \in 1..Len(left) : ~SameKey(left[i], r))
    IN  matched \o [ k \in 1..Len(alone) |-> RightOnlyRow(alone[k]) ]

\* The right table with an action column to carry along when it has none:
\* the join pairs the rows on the keys alone.
WithAction(right) ==
    [ k \in 1..Len(right) |->
        IF "action" \in DOMAIN right[k]
        THEN right[k] ELSE right[k] @@ [ action |-> NaNStr ] ]

\* pd.merge of tables that may lack a column other than a key: the result
\* has the columns of the two tables and no other.
MergeOnColumns(left, dfcols, right, actcols) ==
    Project(Merge(left, WithAction(right)), dfcols \cup actcols)

Untouched(m) == SelectSeq(m, LAMBDA x : x.action = NaNStr)

TrueAdditionRows(m) ==
    SelectSeq(m, LAMBDA x : x.action = "add" /\ x.text = NaNText)

\* FalseAdditionRows without the test of the text column.
FalseAdditionRowsNoTextTest(m) ==
    SelectSeq(m, LAMBDA x : x.action = "add")

FalseAdditionRows(m) ==
    SelectSeq(m, LAMBDA x : x.action = "add" /\ x.text # NaNText)

TrueDeletionRows(m) ==
    SelectSeq(m, LAMBDA x : x.action = "delete" /\ x.text # NaNText)

FalseDeletionRows(m) ==
    SelectSeq(m, LAMBDA x : x.action = "delete" /\ x.text = NaNText)

Range(s) == { s[i] : i \in DOMAIN s }

\* Series.max() of a non-empty integer column.
SeriesMax(S) == CHOOSE x \in S : \A y \in S : y <= x

\* NextTpId without the + 1.
NextTpIdNoIncrement(u) == SeriesMax({ u[i].training_phrase : i \in DOMAIN u })

\* untouched["training_phrase"].max() + 1
NextTpId(u) == SeriesMax({ u[i].training_phrase : i \in DOMAIN u }) + 1

\* Materialize without line 242: the id column keeps the NaN of the join.
MaterializeKeepsId(ta, nm, next_tp_id) ==
    [ k \in 1..Len(ta) |->
        [ name            |-> nm,
          display_name    |-> ta[k].display_name,
          training_phrase |-> next_tp_id + (k - 1),
          part            |-> 0,
          text            |-> ta[k].phrase,
          parameter_id    |-> "",
          repeat_count    |-> 1,
          id              |-> ta[k].id,
          phrase          |-> ta[k].phrase,
          action          |-> ta[k].action ] ]

\* The true additions as rows of the training-phrase table: the owner name,
\* the indices next_tp_id .. last_tp_id in row order, and the defaults.
Materialize(ta, nm, next_tp_id) ==
    [ k \in 1..Len(ta) |->
        [ name            |-> nm,
          display_name    |-> ta[k].display_name,
          training_phrase |-> next_tp_id + (k - 1),
          part            |-> 0,
          text            |-> ta[k].phrase,
          parameter_id    |-> "",
          repeat_count    |-> 1,
          id              |-> "",
          phrase          |-> ta[k].phrase,
          action          |-> ta[k].action ] ]

\* DataFrame.drop(columns=["action"]) on one row.
DropAction(x) == [ f \in (DOMAIN x) \ {"action"} |-> x[f] ]

\* untouched, then the false additions, then the true additions, without
\* the action column.
Assemble(u, fa, ta) ==
    LET all == u \o fa \o ta
    IN  [ k \in 1..Len(all) |-> DropAction(all[k]) ]

\* Outcome with the two arguments of format in the other order.
OutcomeSwapped(x, template) == << x.display_name >> \o template \o x.phrase

\* "{} <template> {}".format(phrase, display_name)
Outcome(x, template) == x.phrase \o template \o << x.display_name >>

\* The three inserted columns of one class of the audit table.
Annotate(rows, done, cat, template) ==
    [ k \in 1..Len(rows) |->
        rows[k] @@ [ completed |-> done,
                     category  |-> cat,
                     outcome   |-> Outcome(rows[k], template) ] ]

ActionsTaken(ta, fa, td, fd) ==
       Annotate(ta, 1, "true addition", <<" added to ">>)
    \o Annotate(fa, 0, "false addition", <<" already in ">>)
    \o Annotate(td, 1, "true deletion", <<" removed from ">>)
    \o Annotate(fd, 0, "false deletion", <<" not found in ">>)

\* ActionableIntents without the completed == 1 filter.
ActionableIntentsAnyOutcome(taken) ==
    { taken[k].display_name : k \in DOMAIN taken }

ActionableIntents(taken) ==
    { taken[k].display_name : k \in { i \in DOMAIN taken : taken[i].completed = 1 } }

Retain(upd, intents) == SelectSeq(upd, LAMBDA x : x.display_name \in intents)

\* -------------------------------------------------------- object identity
\* Every DataFrame is an object with an identity; objs.next is the identity
\* the next new DataFrame gets.  merge, boolean indexing, drop, copy,
\* pd.concat and pd.DataFrame() make a new object; a column assignment and
\* DataFrame.insert write into the object they are called on.

\* The number of classes with a row: each one costs a pd.concat into
\* actions_taken (lines 282, 299, 316, 333).
AuditConcats(ta, fa, td, fd) ==
      (IF ta # <<>> THEN 1 ELSE 0) + (IF fa # <<>> THEN 1 ELSE 0)
    + (IF td # <<>> THEN 1 ELSE 0) + (IF fd # <<>> THEN 1 ELSE 0)

\* The objects written in place by a call that got past line 333: the drop
\* result of line 217 (lines 228-242) and every class table with a row
\* (insert at lines 268, 285, 302, 319).
\*   n: mutations; n+1: untouched; n+2, n+3: the masks of lines 210, 213;
\*   n+4: drop of line 217; n+5: line 243; n+6, n+7: copy and mask of line
\*   246; n+8, n+9: line 249; n+10 .. n+13: lines 253-264; n+14: line 266.
WrittenInPlace(n, ta, fa, td, fd) ==
       { n + 4 }
    \cup (IF ta # <<>> THEN { n + 5 } ELSE {})
    \cup (IF fa # <<>> THEN { n + 3 } ELSE {})
    \cup (IF td # <<>> THEN { n + 7 } ELSE {})
    \cup (IF fd # <<>> THEN { n + 9 } ELSE {})

\* The objects after a call that returns: actions_taken is the result of the
\* last pd.concat, updated the result of the mask of line 339.
ObjectsReturned(objs, ta, fa, td, fd) ==
    LET n == objs.next
        k == AuditConcats(ta, fa, td, fd)
    IN  [ objs EXCEPT !.next    = n + 17 + k,
                      !.taken   = n + 14 + k,
                      !.updated = n + 16 + k,
                      !.written = WrittenInPlace(n, ta, fa, td, fd) ]

\* The objects after a call that raises at line: nothing is returned.
ObjectsRaised(objs, line, ta, fa, td, fd) ==
    LET n == objs.next
    IN  [ objs EXCEPT
            !.next    = CASE line = 199 -> n
                          [] line = 207 -> n + 1
                          [] line = 211 -> n + 2
                          [] line = 217 -> n + 4
                          [] line = 228 -> n + 5
                          [] line = 336 -> n + 15 + AuditConcats(ta, fa, td, fd),
            !.taken   = 0,
            !.updated = 0,
            !.written = IF line = 336
                        THEN WrittenInPlace(n, ta, fa, td, fd) ELSE {} ]

\* ------------------------------------------------------------------- state
VARIABLES
    actions,                      \* argument: the actions table
    training_phrase_df,           \* argument: the current training phrases
    actions_columns,              \* actions.columns
    df_columns,                   \* training_phrase_df.columns
    pc,                           \* "start" | "returned" | "raised"
    error,                        \* the exception raised, or "none"
    raised_at,                    \* the source line that raised, or 0
    objs,                         \* the identities of the DataFrame objects
    call,                         \* 1 for the first call, 2 for the reapplication
    mutations,                    \* local (line 199)
    untouched,                    \* local (line 207)
    true_additions,               \* local (lines 210, 217-243)
    false_additions,              \* local (line 213)
    true_deletions,               \* local (line 246)
    false_deletions,              \* local (line 249)
    updated_training_phrases_df,  \* return_data["updated_training_phrases_df"]
    actions_taken                 \* return_data["actions_taken"]

vars == << actions, training_phrase_df, actions_columns, df_columns,
           pc, error, raised_at, objs, call, mutations, untouched,
           true_additions, false_additions, true_deletions, false_deletions,
           updated_training_phrases_df, actions_taken >>

Init ==
    /\ \/ /\ training_phrase_df \in CurrentTables
          /\ actions \in ActionTables
          /\ df_columns = CurrentColumns
          /\ actions_columns = ActionColumns
       \/ /\ training_phrase_df = GreetingCurrent
          /\ actions = GreetingActions
          /\ df_columns = CurrentColumns
          /\ actions_columns = ActionColumns
       \/ /\ training_phrase_df = <<>>
          /\ actions = ByeActions
          /\ df_columns = CurrentColumns
          /\ actions_columns = ActionColumns
       \/ \E col \in CurrentColumns : \E base \in { BaseCurrent, <<>> } :
              /\ df_columns = CurrentColumns \ {col}
              /\ training_phrase_df = Project(base, df_columns)
              /\ actions \in ShortActionTables
              /\ actions_columns = ActionColumns
       \/ \E col \in ActionColumns : \E acts \in ShortActionTables :
              /\ actions_columns = ActionColumns \ {col}
              /\ actions = Project(acts, actions_columns)
              /\ training_phrase_df = BaseCurrent
              /\ df_columns = CurrentColumns
    /\ pc = "start"
    /\ error = "none"
    /\ raised_at = 0
    /\ objs = [ next |-> 3, df |-> 1, acts |-> 2, updated |-> 0, taken |-> 0,
                written |-> {} ]
    /\ call = 1
    /\ mutations = <<>>
    /\ untouched = <<>>
    /\ true_additions = <<>>
    /\ false_additions = <<>>
    /\ true_deletions = <<>>
    /\ false_deletions = <<>>
    /\ updated_training_phrases_df = <<>>
    /\ actions_taken = <<>>

\* The arguments with a completed column inserted into the actions table.
ArgumentsAnnotated ==
    /\ actions_columns' = actions_columns \cup {"completed"}
    /\ UNCHANGED << actions, training_phrase_df, df_columns >>

\* What the call does to its two arguments: no statement assigns to, inserts
\* into or drops from actions or training_phrase_df.
ArgumentsKept ==
    UNCHANGED << actions, training_phrase_df, actions_columns, df_columns >>

\* A column that is not there: KeyError at line, with the locals bound so
\* far.
RaiseKeyError(line) ==
    LET m == MergeOnColumns(training_phrase_df, df_columns, actions, actions_columns)
    IN  /\ pc' = "raised"
        /\ error' = "KeyError"
        /\ raised_at' = line
        /\ objs' = ObjectsRaised(objs, line, <<>>, <<>>, <<>>, <<>>)
        /\ mutations' = IF line > 199 THEN m ELSE mutations
        /\ untouched' = IF line > 207 THEN Untouched(m) ELSE untouched
        /\ true_additions' = IF line > 211 THEN TrueAdditionRows(m) ELSE true_additions
        /\ false_additions' = IF line > 215 THEN FalseAdditionRows(m) ELSE false_additions
        /\ UNCHANGED << true_deletions, false_deletions,
                        updated_training_phrases_df, actions_taken >>

\* The call on tables that have every column.
RunOnAllColumns ==
    LET m  == MergeOnColumns(training_phrase_df, df_columns, actions, actions_columns)
        u  == Untouched(m)
        ta == TrueAdditionRows(m)
        fa == FalseAdditionRows(m)
    IN  /\ mutations' = m
        /\ untouched' = u
        /\ false_additions' = fa
        /\ IF u = <<>>
           THEN \* line 228: list(set(untouched["name"]))[0] on an empty set
                /\ pc' = "raised"
                /\ error' = "IndexError"
                /\ raised_at' = 228
                /\ objs' = ObjectsRaised(objs, 228, <<>>, <<>>, <<>>, <<>>)
                /\ true_additions' = ta
                /\ UNCHANGED << true_deletions, false_deletions,
                                updated_training_phrases_df, actions_taken >>
           ELSE \E nm \in { u[i].name : i \in DOMAIN u } :
                LET tam   == Materialize(ta, nm, NextTpId(u))
                    td    == TrueDeletionRows(m)
                    fd    == FalseDeletionRows(m)
                    upd   == Assemble(u, fa, tam)
                    taken == ActionsTaken(tam, fa, td, fd)
                IN  /\ true_additions' = tam
                    /\ true_deletions' = td
                    /\ false_deletions' = fd
                    /\ actions_taken' = taken
                    /\ IF taken = <<>>
                       THEN \* line 336: no "completed" column
                            /\ pc' = "raised"
                            /\ error' = "KeyError"
                            /\ raised_at' = 336
                            /\ objs' = ObjectsRaised(objs, 336, tam, fa, td, fd)
                            /\ updated_training_phrases_df' = upd
                       ELSE /\ pc' = "returned"
                            /\ error' = "none"
                            /\ raised_at' = 0
                            /\ objs' = ObjectsReturned(objs, tam, fa, td, fd)
                            /\ updated_training_phrases_df' =
                                   Retain(upd, ActionableIntents(taken))

\* One call of modify_training_phrase_df(actions, training_phrase_df).
modify_training_phrase_df ==
    /\ pc = "start"
    /\ IF KeyErrorLine(df_columns, actions_columns) # 0
       THEN RaiseKeyError(KeyErrorLine(df_columns, actions_columns))
       ELSE RunOnAllColumns
    /\ ArgumentsKept
    /\ UNCHANGED call

\* The caller applies the same actions to the table the first call returned.
Reapply ==
    /\ pc = "returned"
    /\ call = 1
    /\ call' = 2
    /\ pc' = "start"
    /\ training_phrase_df' = updated_training_phrases_df
    /\ objs' = [ objs EXCEPT !.df = objs.updated, !.updated = 0, !.taken = 0,
                             !.written = {} ]
    /\ mutations' = <<>>
    /\ untouched' = <<>>
    /\ true_additions' = <<>>
    /\ false_additions' = <<>>
    /\ true_deletions' = <<>>
    /\ false_deletions' = <<>>
    /\ updated_training_phrases_df' = <<>>
    /\ actions_taken' = <<>>
    /\ UNCHANGED << actions, actions_columns, df_columns, error, raised_at >>

Next == modify_training_phrase_df \/ Reapply

Spec == Init /\ [][Next]_vars

\* ------------------------------------------------------- claim vocabulary
Returned == pc = "returned"

\* Line 251 was reached: all five classes have been computed.
Classified == pc = "returned" \/ (pc = "raised" /\ raised_at = 336)

\* The two arguments have all their columns.
WellFormed == df_columns = CurrentColumns /\ actions_columns = ActionColumns

\* The number of rows of a table that satisfy Test.
Count(tbl, Test(_)) == Cardinality({ i \in DOMAIN tbl : Test(tbl[i]) })

\* The current table holds a row of intent d whose phrase is p.
InCurrent(d, p) ==
    \E i \in DOMAIN training_phrase_df :
        /\ training_phrase_df[i].display_name = d
        /\ training_phrase_df[i].phrase = p

\* The actions table holds a row (d, p, kind).
Requested(d, p, kind) ==
    \E i \in DOMAIN actions :
        /\ actions[i].display_name = d
        /\ actions[i].phrase = p
        /\ actions[i].action = kind

\* An action row that changes the table, by the specification's reading.
IsTrueAction(a) ==
    \/ a.action = "add" /\ ~InCurrent(a.display_name, a.phrase)
    \/ a.action = "delete" /\ InCurrent(a.display_name, a.phrase)

\* The intents with at least one true addition or true deletion.
CompletedIntents ==
    { actions[i].display_name : i \in { j \in DOMAIN actions : IsTrueAction(actions[j]) } }

\* The true-addition rows are re-built by the materialization: a joined row
\* is among them when a materialized row carries its intent and phrase.
AmongTrueAdditions(x) ==
    /\ x.action = "add"
    /\ x.text = NaNText
    /\ \E k \in DOMAIN true_additions :
           /\ true_additions[k].display_name = x.display_name
           /\ true_additions[k].phrase = x.phrase

\* The classes a joined row belongs to.
ClassesOf(x) ==
       (IF x \in Range(untouched) THEN {"untouched"} ELSE {})
    \cup (IF AmongTrueAdditions(x) THEN {"true addition"} ELSE {})
    \cup (IF x \in Range(false_additions) THEN {"false addition"} ELSE {})
    \cup (IF x \in Range(true_deletions) THEN {"true deletion"} ELSE {})
    \cup (IF x \in Range(false_deletions) THEN {"false deletion"} ELSE {})

\* The class the specification gives a joined row, from the two inputs alone.
ExpectedClass(x) ==
    IF ~(Requested(x.display_name, x.phrase, "add")
         \/ Requested(x.display_name, x.phrase, "delete"))
    THEN "untouched"
    ELSE IF x.action = "add"
         THEN IF InCurrent(x.display_name, x.phrase)
              THEN "false addition" ELSE "true addition"
         ELSE IF InCurrent(x.display_name, x.phrase)
              THEN "true deletion" ELSE "false deletion"

C1_WitnessOther ==
    /\ Classified
    /\ untouched # <<>>
    /\ true_additions # <<>>
    /\ false_deletions # <<>>

\* The ordinal indices of the phrases of intent d in the current table.
ExistingIndices(d) ==
    { training_phrase_df[i].training_phrase :
        i \in { j \in DOMAIN training_phrase_df :
                  training_phrase_df[j].display_name = d } }

\* The ordinal indices allocated to the true additions of intent d.
NewIndices(d) ==
    { true_additions[k].training_phrase :
        k \in { j \in DOMAIN true_additions :
                  true_additions[j].display_name = d } }

\* C2: ordinal-index freshness.  Every index allocated to a true addition is
\* greater than every index the intent had in the current table, the new
\* indices of an intent are max(existing) + 1 .. max(existing) + n with one
\* index per true addition, and no two distinct phrases of one intent in
\* updated share an index.
C2_IndexFreshness ==
    Returned =>
        /\ \A k \in DOMAIN true_additions :
               \A e \in ExistingIndices(true_additions[k].display_name) :
                   true_additions[k].training_phrase > e
        /\ \A d \in { true_additions[k].display_name : k \in DOMAIN true_additions } :
               LET n == Count(true_additions, LAMBDA t : t.display_name = d)
               IN  ExistingIndices(d) # {} =>
                       NewIndices(d) = (SeriesMax(ExistingIndices(d)) + 1)
                                           .. (SeriesMax(ExistingIndices(d)) + n)
        /\ \A i, j \in DOMAIN updated_training_phrases_df :
               LET x == updated_training_phrases_df[i]
                   y == updated_training_phrases_df[j]
               IN  (x.display_name = y.display_name
                       /\ x.training_phrase = y.training_phrase)
                   => x.phrase = y.phrase

\* C3: audit completeness.  Every row of the actions table has exactly one
\* row in actions_taken, and the rows with completed = 1 are as many as the
\* true additions and true deletions among the action rows.
C3_AuditCompleteness ==
    Returned =>
        /\ Len(actions_taken) = Len(actions)
        /\ \A i \in DOMAIN actions :
               Count(actions_taken,
                     LAMBDA t : /\ t.display_name = actions[i].display_name
                                /\ t.phrase = actions[i].phrase
                                /\ t.action = actions[i].action)
               = Count(actions, LAMBDA a : a = actions[i])
        /\ Count(actions_taken, LAMBDA t : t.completed = 1)
               = Count(actions, IsTrueAction)

\* The rows of the current table kept by the classification (untouched or
\* false addition) that belong to intent d, in order.
KeptRowsOf(d) ==
    LET kept == untouched \o false_additions
        mine == SelectSeq(kept, LAMBDA x : x.display_name = d)
    IN  [ k \in 1..Len(mine) |-> DropAction(mine[k]) ]

\* The rows of updated of intent d whose phrase the current table holds
\* (a materialized addition is a phrase the current table does not hold).
UpdatedOldRowsOf(d) ==
    SelectSeq(updated_training_phrases_df,
              LAMBDA x : x.display_name = d /\ InCurrent(d, x.phrase))

\* C4: intent retention.  updated holds a row of an intent only if an action
\* on that intent was a true addition or a true deletion; an intent with
\* only no-op actions, or none, has no row in updated; a retained intent
\* keeps all of its untouched and false-addition rows.
C4_IntentRetention ==
    Returned =>
        /\ \A i \in DOMAIN updated_training_phrases_df :
               updated_training_phrases_df[i].display_name \in CompletedIntents
        /\ \A d \in CompletedIntents : UpdatedOldRowsOf(d) = KeptRowsOf(d)

\* A call that returned a retained intent with a kept row, while another
\* intent of the current table, touched by a no-op only, is excluded.
C4_Witness ==
    /\ Returned
    /\ \E d \in CompletedIntents : KeptRowsOf(d) # <<>>
    /\ \E i \in DOMAIN training_phrase_df :
           LET d == training_phrase_df[i].display_name
           IN  /\ d \notin CompletedIntents
               /\ \E j \in DOMAIN actions : actions[j].display_name = d

\* The second call has ended.
Reapplied == call = 2 /\ pc # "start"

\* C5: idempotence.  The reapplication of the same actions to the updated
\* table of the first call returns, and every row of its audit table is a
\* no-op (completed = 0).
C5_Idempotence ==
    Reapplied =>
        /\ Returned
        /\ \A k \in DOMAIN actions_taken : actions_taken[k].completed = 0

\* C6: row conservation.  Every current row of a retained intent is counted
\* exactly once by updated and the dropped true-deletion rows together, and
\* the two together are as many as those current rows plus the true
\* additions among the action rows.
C6_RowConservation ==
    Returned =>
        /\ \A i \in DOMAIN training_phrase_df :
               LET c == training_phrase_df[i]
               IN  c.display_name \in CompletedIntents =>
                       Count(updated_training_phrases_df, LAMBDA x : x = c)
                       + Count(true_deletions, LAMBDA x : DropAction(x) = c)
                       = 1
        /\ Len(updated_training_phrases_df) + Len(true_deletions)
               = Count(training_phrase_df,
                       LAMBDA c : c.display_name \in CompletedIntents)
                 + Count(actions,
                         LAMBDA a : /\ a.action = "add"
                                    /\ ~InCurrent(a.display_name, a.phrase))

\* The action rows that add phrase p to intent d.
AddRequests(d, p) ==
    Count(actions, LAMBDA a : /\ a.display_name = d
                              /\ a.phrase = p
                              /\ a.action = "add")

\* C7: true-addition materialization.  Every add of a phrase the current
\* table does not hold is exactly one row of updated, under the display name
\* of the action's intent, with part 0, the phrase as its text, an empty
\* parameter_id, repeat_count 1 and an empty id.
C7_Materialization ==
    Returned =>
        \A i \in DOMAIN actions :
            LET a == actions[i]
                isNew(x) == x.display_name = a.display_name /\ x.phrase = a.phrase
            IN  (a.action = "add" /\ ~InCurrent(a.display_name, a.phrase)) =>
                    /\ Count(updated_training_phrases_df, isNew)
                           = AddRequests(a.display_name, a.phrase)
                    /\ \A k \in DOMAIN updated_training_phrases_df :
                           LET x == updated_training_phrases_df[k]
                           IN  isNew(x) =>
                                   /\ x.part = 0
                                   /\ x.text = a.phrase
                                   /\ x.parameter_id = ""
                                   /\ x.repeat_count = 1
                                   /\ x.id = ""

\* A call that returned with a true addition beside rows of the current
\* table.
C7_Witness ==
    /\ Returned
    /\ \E i \in DOMAIN actions :
           /\ actions[i].action = "add"
           /\ ~InCurrent(actions[i].display_name, actions[i].phrase)
    /\ \E k \in DOMAIN updated_training_phrases_df :
           updated_training_phrases_df[k].id # ""

\* C8: whole-phrase deletion.  After a delete of (d, p) no part row of a
\* current phrase of d with text p is in updated; a current row of a retained intent that
\* no delete names is still in updated; the part rows of one phrase are in
\* updated all together or not at all.
C8_WholePhraseDeletion ==
    Returned =>
        /\ \A i \in DOMAIN training_phrase_df :
               LET c == training_phrase_df[i]
               IN  Requested(c.display_name, c.phrase, "delete")
                   => c \notin Range(updated_training_phrases_df)
        /\ \A i \in DOMAIN training_phrase_df :
               LET c == training_phrase_df[i]
               IN  (c.display_name \in CompletedIntents
                       /\ ~Requested(c.display_name, c.phrase, "delete"))
                   => c \in Range(updated_training_phrases_df)
        /\ \A i, j \in DOMAIN training_phrase_df :
               LET c == training_phrase_df[i]
                   e == training_phrase_df[j]
               IN  (c.display_name = e.display_name
                       /\ c.training_phrase = e.training_phrase)
                   => (c \in Range(updated_training_phrases_df)
                          <=> e \in Range(updated_training_phrases_df))

\* An action row that is a per-row mismatch: a delete of a phrase that is not
\* there, or an add of a phrase that is.
IsMismatch(a) ==
    \/ a.action = "delete" /\ ~InCurrent(a.display_name, a.phrase)
    \/ a.action = "add" /\ InCurrent(a.display_name, a.phrase)

\* C9: per-row mismatches are not errors.  A first call whose actions hold a
\* mismatch returns, with a completed = 0 audit row for every mismatch and
\* completed = 1 rows for the other actions; with an empty current table and
\* the one action (X, bye, delete) it returns an empty updated table and the
\* one audit row "bye not found in X", completed = 0.
C9_MismatchNotError ==
    /\ (call = 1 /\ pc # "start" /\ WellFormed
           /\ \E i \in DOMAIN actions : IsMismatch(actions[i]))
       => /\ Returned
          /\ \A i \in DOMAIN actions :
                 \E k \in DOMAIN actions_taken :
                     /\ actions_taken[k].display_name = actions[i].display_name
                     /\ actions_taken[k].phrase = actions[i].phrase
                     /\ actions_taken[k].action = actions[i].action
                     /\ actions_taken[k].completed
                            = (IF IsMismatch(actions[i]) THEN 0 ELSE 1)
    /\ (call = 1 /\ pc # "start"
           /\ training_phrase_df = <<>> /\ actions = ByeActions)
       => /\ Returned
          /\ updated_training_phrases_df = <<>>
          /\ Len(actions_taken) = 1
          /\ actions_taken[1].completed = 0
          /\ actions_taken[1].outcome = TxtBye \o <<" not found in ", "X">>

\* C10: the Greeting scenario.  With the one current row (Greeting, 0, 0, hi)
\* and the actions (Greeting, hi, delete), (Greeting, yo, add) the call
\* returns the one updated row (Greeting, 1, 0, yo) and the two audit rows
\* "hi removed from Greeting" and "yo added to Greeting", both completed = 1.
C10_GreetingScenario ==
    (call = 1 /\ pc # "start"
        /\ training_phrase_df = GreetingCurrent /\ actions = GreetingActions)
    => /\ Returned
       /\ Len(updated_training_phrases_df) = 1
       /\ updated_training_phrases_df[1].display_name = "Greeting"
       /\ updated_training_phrases_df[1].training_phrase = 1
       /\ updated_training_phrases_df[1].part = 0
       /\ updated_training_phrases_df[1].text = TxtYo
       /\ Len(actions_taken) = 2
       /\ \E k \in DOMAIN actions_taken :
              /\ actions_taken[k].outcome = TxtHi \o <<" removed from ", "Greeting">>
              /\ actions_taken[k].completed = 1
       /\ \E k \in DOMAIN actions_taken :
              /\ actions_taken[k].outcome = TxtYo \o <<" added to ", "Greeting">>
              /\ actions_taken[k].completed = 1

\* The category the specification gives an action on (d, p).
ExpectedCategory(d, p, kind) ==
    IF kind = "add"
    THEN IF InCurrent(d, p) THEN "false addition" ELSE "true addition"
    ELSE IF InCurrent(d, p) THEN "true deletion" ELSE "false deletion"

\* The words of the outcome message of a category.
MessageWords(cat) ==
    CASE cat = "true addition"  -> <<" added to ">>
      [] cat = "false addition" -> <<" already in ">>
      [] cat = "true deletion"  -> <<" removed from ">>
      [] cat = "false deletion" -> <<" not found in ">>

\* C11: audit annotation.  Every audit row carries the category of its
\* action's outcome, completed = 1 exactly for a true addition or a true
\* deletion and 0 exactly for a false one, and the message of its category
\* built from the row's own phrase and intent.
C11_AuditAnnotation ==
    Returned =>
        \A k \in DOMAIN actions_taken :
            LET t == actions_taken[k]
            IN  /\ t.category = ExpectedCategory(t.display_name, t.phrase, t.action)
                /\ t.completed \in {0, 1}
                /\ t.completed = 1 <=>
                       t.category \in {"true addition", "true deletion"}
                /\ t.completed = 0 <=>
                       t.category \in {"false addition", "false deletion"}
                /\ t.outcome = t.phrase \o MessageWords(t.category)
                                        \o << t.display_name >>

\* A call that returned an audit with a completed row and a no-op row.
C11_Witness ==
    /\ Returned
    /\ \E k \in DOMAIN actions_taken : actions_taken[k].completed = 1
    /\ \E k \in DOMAIN actions_taken : actions_taken[k].completed = 0

\* The intent resource names among the untouched rows of the join.
UntouchedNames ==
    { mutations[i].name : i \in { j \in DOMAIN mutations : mutations[j].action = NaNStr } }

\* C12: an ambiguous owner is an error.  A call with a true addition whose
\* untouched rows carry no intent name, or more than one, raises
\* AmbiguousIntentError and returns neither table.
C12_AmbiguousIntent ==
    (pc # "start" /\ WellFormed
        /\ \E i \in DOMAIN actions :
               /\ actions[i].action = "add"
               /\ ~InCurrent(actions[i].display_name, actions[i].phrase)
        /\ Cardinality(UntouchedNames) # 1)
    => /\ pc = "raised"
       /\ error = "AmbiguousIntentError"
       /\ updated_training_phrases_df = <<>>
       /\ actions_taken = <<>>

\* The action list is the move of phrase p from intent a to intent b.
IsMove(a, b, p) ==
    /\ a # b
    /\ InCurrent(a, p)
    /\ ~InCurrent(b, p)
    /\ ExistingIndices(b) # {}
    /\ Len(actions) = 2
    /\ Range(actions) =
           { [ display_name |-> a, phrase |-> p, action |-> "delete" ],
             [ display_name |-> b, phrase |-> p, action |-> "add" ] }

\* C15: move.  For intents a and b of the current table and a phrase p of a
\* that b does not hold, the actions (a, p, delete), (b, p, add) return an
\* updated table without p in a and with p in b as one new part-0 row whose
\* index is none of b's, with every other current row of a and b kept, and an
\* audit whose rows are all completed = 1, one at least for each action.
C15_Move ==
    \A a, b \in IntentNames : \A p \in ActionPhrases :
        (call = 1 /\ pc # "start" /\ WellFormed /\ IsMove(a, b, p)) =>
            /\ Returned
            /\ \A k \in DOMAIN updated_training_phrases_df :
                   LET x == updated_training_phrases_df[k]
                   IN  ~(x.display_name = a /\ x.phrase = p)
            /\ Count(updated_training_phrases_df,
                     LAMBDA x : x.display_name = b /\ x.phrase = p) = 1
            /\ \A k \in DOMAIN updated_training_phrases_df :
                   LET x == updated_training_phrases_df[k]
                   IN  (x.display_name = b /\ x.phrase = p) =>
                           /\ x.part = 0
                           /\ x.text = p
                           /\ x.training_phrase \notin ExistingIndices(b)
            /\ \A i \in DOMAIN training_phrase_df :
                   LET c == training_phrase_df[i]
                   IN  ~(c.display_name = a /\ c.phrase = p) =>
                           c \in Range(updated_training_phrases_df)
            /\ \A k \in DOMAIN actions_taken : actions_taken[k].completed = 1
            /\ \E k \in DOMAIN actions_taken :
                   /\ actions_taken[k].display_name = a
                   /\ actions_taken[k].action = "delete"
            /\ \E k \in DOMAIN actions_taken :
                   /\ actions_taken[k].display_name = b
                   /\ actions_taken[k].action = "add"

\* A call that returned from a move out of an intent that keeps another
\* phrase.
C15_Witness ==
    /\ Returned
    /\ call = 1
    /\ \E a, b \in IntentNames : \E p \in ActionPhrases :
           /\ IsMove(a, b, p)
           /\ \E i \in DOMAIN training_phrase_df :
                  /\ training_phrase_df[i].display_name = a
                  /\ training_phrase_df[i].phrase # p

\* C16: name consistency.  Every row of a returned updated table carries the
\* resource name its display name has in the current table.
C16_NameConsistency ==
    Returned =>
        \A k \in DOMAIN updated_training_phrases_df :
            \A i \in DOMAIN training_phrase_df :
                updated_training_phrases_df[k].display_name
                    = training_phrase_df[i].display_name
                => updated_training_phrases_df[k].name = training_phrase_df[i].name

\* The columns the two arguments lack.
MissingColumns ==
    (CurrentColumns \ df_columns) \cup (ActionColumns \ actions_columns)

\* No table was returned and no deletion class was built.
NoOutput ==
    /\ updated_training_phrases_df = <<>>
    /\ actions_taken = <<>>
    /\ true_deletions = <<>>
    /\ false_deletions = <<>>

\* C13 as stated: a call on a table that lacks a required column raises
\* ValidationError at once, before any classification, and produces no table.
C13_ValidationError ==
    (pc # "start" /\ ~WellFormed) =>
        /\ pc = "raised"
        /\ error = "ValidationError"
        /\ untouched = <<>> /\ true_additions = <<>> /\ false_additions = <<>>
        /\ NoOutput

\* C13 as amended: a call on a table that lacks a required column raises
\* KeyError at the first line that uses the column - the merge (199) for a
\* join key, the masks for action (207) and text (211), the drop of line 217
\* for name, training_phrase, part, parameter_id, repeat_count and id, by
\* then with the untouched rows and the additions classified - and produces
\* no table.
C13_MissingColumnKeyError ==
    (pc # "start" /\ ~WellFormed) =>
        /\ pc = "raised"
        /\ error = "KeyError"
        /\ NoOutput
        /\ raised_at =
               (IF MissingColumns \cap { "display_name", "phrase" } # {} THEN 199
                ELSE IF "action" \in MissingColumns THEN 207
                ELSE IF "text" \in MissingColumns THEN 211
                ELSE 217)
        /\ raised_at = 199 => mutations = <<>>
        /\ raised_at \in {199, 207} => untouched = <<>>
        /\ raised_at \in {199, 207, 211} =>
               true_additions = <<>> /\ false_additions = <<>>
        /\ raised_at = 217 =>
               /\ untouched = Untouched(mutations)
               /\ Len(untouched) + Len(true_additions) + Len(false_additions)
                      <= Len(mutations)

\* A call on a current table without its name column, raised at line 217
\* with untouched rows and an addition already classified.
C13_Witness ==
    /\ pc = "raised"
    /\ "name" \in MissingColumns
    /\ raised_at = 217
    /\ untouched # <<>>
    /\ true_additions \o false_additions # <<>>

\* The values of the two arguments.
Arguments == << actions, training_phrase_df, actions_columns, df_columns >>

\* C14: the inputs are read-only.  A call, whether it returns or raises,
\* leaves the rows, columns and values of actions and training_phrase_df as
\* they were and writes into neither object, and the two tables it returns
\* are two new objects, neither of them one of the arguments.
C14_InputsReadOnly ==
    /\ [][ (pc = "start" /\ pc' # "start") => Arguments' = Arguments ]_vars
    /\ [](pc # "start" =>
            /\ objs.df \notin objs.written
            /\ objs.acts \notin objs.written
            /\ Returned =>
                   /\ objs.updated \notin { 0, objs.df, objs.acts }
                   /\ objs.taken \notin { 0, objs.df, objs.acts }
                   /\ objs.updated # objs.taken)

\* The second call has returned: its training_phrase_df is the table the
\* first call returned, and class tables were written in place.
C14_Witness ==
    /\ Returned
    /\ call = 2
    /\ Cardinality(objs.written) > 1
    /\ updated_training_phrases_df # <<>>

====
